---- MODULE Spec2Model ----
(***************************************************************************)
(* Associative containers of TSTL: TreeSet, TreeMultiSet, HashSet and      *)
(* HashMultiSet.  Every container composes an Ordered Store (data_, a      *)
(* linked list whose nodes are the iterator handles) with one Index: a     *)
(* red-black tree of handles (tree_) or a hash bucket table                *)
(* (hash_buckets_).                                                        *)
(*                                                                         *)
(* A handle is the creation id of its Store node.  A tree is the empty     *)
(* tuple (a null link) or <<color, left, handle, right>>; a node is        *)
(* addressed by its path from the root, a sequence of the positions 2      *)
(* (left) and 4 (right).                                                   *)
(***************************************************************************)
EXTENDS Integers, Sequences, FiniteSets, TLC

\* ------------------------------------------------------------------ bounds
\* Keys are 0 .. MaxKey.
MaxKey == 2
\* Creation ids handed out over a run (total number of stored elements ever).
MaxUid == 3
\* Largest bucket count a reserve() may ask for.
MaxBuckets == 32

\* The Search Tree Index on its own: keys 0 .. MaxTreeKey, MaxTreeUid creation ids.
MaxTreeKey == 5
MaxTreeUid == 6

\* The range algorithms: Vectors of up to MaxLen elements of 0 .. MaxElem.
MaxLen == 4
MaxElem == 2
\* The permutation loops run over the arrangements of 1 .. n, n up to MaxPerm.
MaxPerm == 5
\* A MultiMapTree on its own: keys 0 .. MaxKey, MaxMultiUid creation ids.
MaxMultiUid == 5

Keys == 0 .. MaxKey
Handles == 1 .. MaxUid
Conts == {1, 2}
Other(c) == 3 - c

\* --------------------------------------------------------- small utilities
RECURSIVE SeqToSet(_)
SeqToSet(s) == IF s = <<>> THEN {} ELSE {Head(s)} \cup SeqToSet(Tail(s))

RECURSIVE IndexOf(_, _)
\* position of x in s, 0 when absent
IndexOf(s, x) ==
    IF s = <<>> THEN 0
    ELSE IF Head(s) = x THEN 1
    ELSE LET r == IndexOf(Tail(s), x) IN IF r = 0 THEN 0 ELSE r + 1

RemoveAt(s, i) == SubSeq(s, 1, i - 1) \o SubSeq(s, i + 1, Len(s))
InsertAt(s, i, x) == SubSeq(s, 1, i - 1) \o <<x>> \o SubSeq(s, i, Len(s))

\* ------------------------------------------------------------ comparators
\* std.less / std.equal_to on primitive keys.
std_less(x, y) == x < y
std_equal_to(x, y) == x = y
std_greater(x, y) == x > y

\* The comparators a caller may construct a tree container with.  "half"
\* orders keys by their halves: 0 and 1 are equivalent without being equal.
Comparators == {"less", "greater", "half"}
compare(cmp, x, y) ==
    CASE cmp = "less" -> std_less(x, y)
      [] cmp = "greater" -> std_greater(x, y)
      [] cmp = "half" -> (x \div 2) < (y \div 2)
equivalent(cmp, x, y) == ~compare(cmp, x, y) /\ ~compare(cmp, y, x)

\* ------------------------------------------------- red-black tree (XTree)
\* A tree node is <<color, left, value, right>>; a null link is <<>>.
BLACK == "B"
RED == "R"
LEFT == 2
RIGHT == 4
NULL == 0

XTreeNode(value, color) == <<color, <<>>, value, <<>>>>

\* fetchColor: a null link counts as black.
fetch_color(node) == IF node = <<>> THEN BLACK ELSE node[1]

RECURSIVE Sub(_, _)
\* the subtree that the path p leads to
Sub(t, p) == IF p = <<>> THEN t ELSE Sub(t[Head(p)], Tail(p))

RECURSIVE Put(_, _, _)
\* t with the subtree at path p replaced by s
Put(t, p, s) ==
    IF p = <<>> THEN s ELSE [t EXCEPT ![Head(p)] = Put(t[Head(p)], Tail(p), s)]

SetColor(t, p, c) == Put(t, p, [Sub(t, p) EXCEPT ![1] = c])
SetValue(t, p, v) == Put(t, p, [Sub(t, p) EXCEPT ![3] = v])
ParentPath(p) == SubSeq(p, 1, Len(p) - 1)
Side(p) == p[Len(p)]
SiblingPath(p) == ParentPath(p) \o <<6 - Side(p)>>
UnclePath(p) == SiblingPath(ParentPath(p))

\* rotateLeft(node): the right child takes the node's place.
rotate_left(t, q) ==
    LET n == Sub(t, q)
        r == n[RIGHT]
    IN  Put(t, q, <<r[1], <<n[1], n[LEFT], n[3], r[LEFT]>>, r[3], r[RIGHT]>>)

\* rotateRight(node): the left child takes the node's place.
rotate_right(t, q) ==
    LET n == Sub(t, q)
        l == n[LEFT]
    IN  Put(t, q, <<l[1], l[LEFT], l[3], <<n[1], l[RIGHT], n[3], n[RIGHT]>>>>)

RECURSIVE InOrder(_)
\* the handles of a tree, left to right
InOrder(t) == IF t = <<>> THEN <<>> ELSE InOrder(t[LEFT]) \o <<t[3]>> \o InOrder(t[RIGHT])

RECURSIVE PathOf(_, _)
\* the path of the node whose value is the handle h (<<0>> when there is none)
PathOf(t, h) ==
    IF t = <<>> THEN <<NULL>>
    ELSE IF t[3] = h THEN <<>>
    ELSE LET l == PathOf(t[LEFT], h) IN
         IF l # <<NULL>> THEN <<LEFT>> \o l
         ELSE LET r == PathOf(t[RIGHT], h) IN
              IF r # <<NULL>> THEN <<RIGHT>> \o r ELSE <<NULL>>

\* an order of the handles by their keys alone
handle_less_by_key(cmp, multi, val, x, y) == compare(cmp, val[x], val[y])

\* The order of the handles in a tree.  The unique variant orders handles by
\* the caller's comparator on their keys; the multi variant falls back to
\* the creation id of the handle when the keys are equivalent.
handle_less(cmp, multi, val, x, y) ==
    LET ret == compare(cmp, val[x], val[y]) IN
    IF multi /\ ~ret /\ ~compare(cmp, val[y], val[x])
    THEN x < y
    ELSE ret

RECURSIVE tree_find(_, _, _, _)
\* XTree.find by key on the unique variant: descend by the comparator; the
\* node with an equivalent key, or the last node visited; NULL on an empty tree.
tree_find(t, cmp, val, key) ==
    IF t = <<>> THEN NULL
    ELSE LET my_node == IF compare(cmp, key, val[t[3]]) THEN t[LEFT]
                        ELSE IF compare(cmp, val[t[3]], key) THEN t[RIGHT]
                        ELSE <<>>
         IN IF my_node = <<>> THEN t[3] ELSE tree_find(my_node, cmp, val, key)

RECURSIVE Nearest_loop(_, _, _, _, _, _)
Nearest_loop(ret, matched, cmp, val, key, equal_mover) ==
    LET it == ret[3]
        isMatch == ~compare(cmp, key, val[it]) /\ ~compare(cmp, val[it], key)
        my_node == IF compare(cmp, key, val[it]) THEN ret[LEFT]
                   ELSE IF compare(cmp, val[it], key) THEN ret[RIGHT]
                   ELSE ret[equal_mover]
        matched2 == IF isMatch THEN it ELSE matched
    IN  IF my_node = <<>>
        THEN (IF matched2 # NULL THEN matched2 ELSE it)
        ELSE Nearest_loop(my_node, matched2, cmp, val, key, equal_mover)

\* MultiMapTree._Nearest_by_key: the value of the node it returns, NULL for null.
Nearest_by_key(t, cmp, val, key, equal_mover) ==
    IF t = <<>> THEN NULL
    ELSE Nearest_loop(t, NULL, cmp, val, key, equal_mover)

\* a nearest_by_key that stops at the first node with an equivalent key
nearest_by_key_stops(t, cmp, val, key) == tree_find(t, cmp, val, key)

nearest_by_key(t, cmp, val, key) == Nearest_by_key(t, cmp, val, key, LEFT)

RECURSIVE InsertPath(_, _, _, _, _)
\* the null link a new handle h is attached to
InsertPath(t, cmp, multi, val, h) ==
    IF t = <<>> THEN <<>>
    ELSE IF handle_less(cmp, multi, val, h, t[3])
         THEN <<LEFT>> \o InsertPath(t[LEFT], cmp, multi, val, h)
         ELSE <<RIGHT>> \o InsertPath(t[RIGHT], cmp, multi, val, h)

RECURSIVE insert_case1(_, _)
insert_case5(t, p) ==
    LET pp == ParentPath(p)
        gp == ParentPath(pp)
        t1 == SetColor(SetColor(t, pp, BLACK), gp, RED)
    IN  IF Side(p) = LEFT /\ Side(pp) = LEFT
        THEN rotate_right(t1, gp)
        ELSE rotate_left(t1, gp)

insert_case4(t, p) ==
    LET pp == ParentPath(p) IN
    IF Side(p) = RIGHT /\ Side(pp) = LEFT
    THEN insert_case5(rotate_left(t, pp), pp \o <<LEFT>>)
    ELSE IF Side(p) = LEFT /\ Side(pp) = RIGHT
    THEN insert_case5(rotate_right(t, pp), pp \o <<RIGHT>>)
    ELSE insert_case5(t, p)

insert_case3(t, p) ==
    LET pp == ParentPath(p)
        gp == ParentPath(pp)
    IN  IF fetch_color(Sub(t, UnclePath(p))) = RED
        THEN insert_case1(
                SetColor(SetColor(SetColor(t, pp, BLACK), UnclePath(p), BLACK), gp, RED),
                gp)
        ELSE insert_case4(t, p)

insert_case2(t, p) ==
    IF fetch_color(Sub(t, ParentPath(p))) = BLACK THEN t ELSE insert_case3(t, p)

insert_case1(t, p) ==
    IF p = <<>> THEN SetColor(t, p, BLACK) ELSE insert_case2(t, p)

\* XTree.insert: attach a red node in comparator order, then repair.
tree_insert(t, cmp, multi, val, h) ==
    LET p == InsertPath(t, cmp, multi, val, h) IN
    insert_case1(Put(t, p, XTreeNode(h, RED)), p)

RECURSIVE fetch_maximum(_)
\* the path from a node to the rightmost node below it
fetch_maximum(node) ==
    IF node[RIGHT] = <<>> THEN <<>> ELSE <<RIGHT>> \o fetch_maximum(node[RIGHT])

RECURSIVE erase_case1(_, _)
erase_case6(t, p) ==
    LET pp == ParentPath(p)
        sp == SiblingPath(p)
        t1 == SetColor(SetColor(t, sp, fetch_color(Sub(t, pp))), pp, BLACK)
    IN  IF Side(p) = LEFT
        THEN rotate_left(SetColor(t1, sp \o <<RIGHT>>, BLACK), pp)
        ELSE rotate_right(SetColor(t1, sp \o <<LEFT>>, BLACK), pp)

erase_case5(t, p) ==
    LET sp == SiblingPath(p)
        s == Sub(t, sp)
    IN  IF Side(p) = LEFT /\ fetch_color(s) = BLACK
           /\ fetch_color(s[LEFT]) = RED /\ fetch_color(s[RIGHT]) = BLACK
        THEN erase_case6(
                rotate_right(SetColor(SetColor(t, sp, RED), sp \o <<LEFT>>, BLACK), sp), p)
        ELSE IF Side(p) = RIGHT /\ fetch_color(s) = BLACK
                /\ fetch_color(s[RIGHT]) = RED /\ fetch_color(s[LEFT]) = BLACK
        THEN erase_case6(
                rotate_left(SetColor(SetColor(t, sp, RED), sp \o <<RIGHT>>, BLACK), sp), p)
        ELSE erase_case6(t, p)

erase_case4(t, p) ==
    LET pp == ParentPath(p)
        sp == SiblingPath(p)
        s == Sub(t, sp)
    IN  IF fetch_color(Sub(t, pp)) = RED /\ fetch_color(s) = BLACK
           /\ fetch_color(s[LEFT]) = BLACK /\ fetch_color(s[RIGHT]) = BLACK
        THEN SetColor(SetColor(t, sp, RED), pp, BLACK)
        ELSE erase_case5(t, p)

erase_case3(t, p) ==
    LET pp == ParentPath(p)
        sp == SiblingPath(p)
        s == Sub(t, sp)
    IN  IF fetch_color(Sub(t, pp)) = BLACK /\ fetch_color(s) = BLACK
           /\ fetch_color(s[LEFT]) = BLACK /\ fetch_color(s[RIGHT]) = BLACK
        THEN erase_case1(SetColor(t, sp, RED), pp)
        ELSE erase_case4(t, p)

erase_case2(t, p) ==
    LET pp == ParentPath(p)
        sp == SiblingPath(p)
    IN  IF fetch_color(Sub(t, sp)) = RED
        THEN LET t1 == SetColor(SetColor(t, pp, RED), sp, BLACK) IN
             IF Side(p) = LEFT
             THEN erase_case3(rotate_left(t1, pp), pp \o <<LEFT, LEFT>>)
             ELSE erase_case3(rotate_right(t1, pp), pp \o <<RIGHT, RIGHT>>)
        ELSE erase_case3(t, p)

erase_case1(t, p) ==
    IF p = <<>> THEN t ELSE erase_case2(t, p)

\* replaceNode(oldNode, newNode) for the node under removal, which is marked
\* by the value NULL; a child that becomes the root is painted black.
replace_node(t, child) ==
    LET m == PathOf(t, NULL) IN
    IF m = <<>> /\ child # <<>>
    THEN [child EXCEPT ![1] = BLACK]
    ELSE Put(t, m, child)

RECURSIVE fetch_minimum(_)
\* the path from a node to the leftmost node below it
fetch_minimum(node) ==
    IF node[LEFT] = <<>> THEN <<>> ELSE <<LEFT>> \o fetch_minimum(node[LEFT])

\* an erase that unlinks the node and repairs nothing
tree_erase_unbalanced(t, h) ==
    LET found == PathOf(t, h) IN
    IF found = <<NULL>> THEN t
    ELSE
      LET n0 == Sub(t, found)
          two == n0[LEFT] # <<>> /\ n0[RIGHT] # <<>>
          q == IF two THEN found \o <<LEFT>> \o fetch_maximum(n0[LEFT]) ELSE found
          t1 == IF two THEN SetValue(t, found, Sub(t, q)[3]) ELSE t
          t2 == SetValue(t1, q, NULL)
          node == Sub(t2, q)
          child == IF node[RIGHT] = <<>> THEN node[LEFT] ELSE node[RIGHT]
      IN  replace_node(t2, child)

\* XTree.erase as the design text has it: a node with two children takes over
\* the value of its in-order successor, the minimum of its right subtree, and
\* that node is removed in its place.
tree_erase_successor(t, h) ==
    LET found == PathOf(t, h) IN
    IF found = <<NULL>> THEN t
    ELSE
      LET n0 == Sub(t, found)
          two == n0[LEFT] # <<>> /\ n0[RIGHT] # <<>>
          q == IF two THEN found \o <<RIGHT>> \o fetch_minimum(n0[RIGHT]) ELSE found
          t1 == IF two THEN SetValue(t, found, Sub(t, q)[3]) ELSE t
          t2 == SetValue(t1, q, NULL)
          node == Sub(t2, q)
          child == IF node[RIGHT] = <<>> THEN node[LEFT] ELSE node[RIGHT]
          t3 == IF fetch_color(node) = BLACK
                THEN erase_case1(SetColor(t2, q, fetch_color(child)), q)
                ELSE t2
      IN  replace_node(t3, child)

\* XTree.erase: the node of handle h is removed; a node with two children
\* takes over the value of the maximum of its left subtree, and that node is
\* removed in its place.
tree_erase(t, h) ==
    LET found == PathOf(t, h) IN
    IF found = <<NULL>> THEN t
    ELSE
      LET n0 == Sub(t, found)
          two == n0[LEFT] # <<>> /\ n0[RIGHT] # <<>>
          q == IF two THEN found \o <<LEFT>> \o fetch_maximum(n0[LEFT]) ELSE found
          t1 == IF two THEN SetValue(t, found, Sub(t, q)[3]) ELSE t
          t2 == SetValue(t1, q, NULL)
          node == Sub(t2, q)
          child == IF node[RIGHT] = <<>> THEN node[LEFT] ELSE node[RIGHT]
          t3 == IF fetch_color(node) = BLACK
                THEN erase_case1(SetColor(t2, q, fetch_color(child)), q)
                ELSE t2
      IN  replace_node(t3, child)

\* ------------------------------------------------ hash buckets (HashBuckets)
MIN_BUCKET_COUNT == 8
\* a load factor is the fraction <<numerator, denominator>>
DEFAULT_MAX_FACTOR == <<1, 1>>
\* the load factors max_load_factor(z) is called with
LoadFactors == {<<1, 8>>, <<1, 1>>}
\* The load factors a table on its own is given as well: 1/16 leaves 8 buckets
\* a capacity of floor(8 / 16) = 0.
TableLoadFactors == LoadFactors \cup {<<1, 16>>}
\* The load factors of a table constructed with a caller's hasher: 7/10 is
\* one that does not divide the lengths asked of reserve.
HasherLoadFactors == TableLoadFactors \cup {<<7, 10>>}
\* the lengths reserve(n) is called with
ReserveLengths == {3, 9}
\* The lengths rehash() is asked for.
RehashLengths == {0, 9, 20}

\* The hasher the set containers construct their table with: keys 0 and 1
\* share a bucket among 8 buckets and part among 16.
hasher(key) == CASE key = 0 -> 3 [] key = 1 -> 11 [] OTHER -> 8 * key + key
\* The hashers a table is constructed with: "hash" is the one above, "minus"
\* a caller's hasher whose values are negative integers.
Hashers == {"hash", "minus"}
\* this.hasher_(key) of the table b
hasher_(b, key) == IF b.hasher_ = "minus" THEN 0 - hasher(key) ELSE hasher(key)
\* The key equality predicate and the fetcher of the set containers.
predicator_(x, y) == std_equal_to(x, y)
fetcher_(val, elem) == val[elem]

RECURSIVE BitAnd(_, _)
\* bitwise and of two non-negative integers
BitAnd(a, b) ==
    IF a = 0 \/ b = 0 THEN 0
    ELSE 2 * BitAnd(a \div 2, b \div 2) + (IF a % 2 = 1 /\ b % 2 = 1 THEN 1 ELSE 0)

\* x & y of the language for 0 <= y < 2^30: the low bits of the two's
\* complement of x decide it.
JsAnd(x, y) == BitAnd(x % 1073741824, y)
\* x % y of the language: the sign of the remainder is the sign of x.
JsRem(x, y) == IF x >= 0 THEN x % y ELSE 0 - ((0 - x) % y)

RECURSIVE NextPow2(_, _)
\* the least power of two p * 2^i that is >= n
NextPow2(p, n) == IF p >= n THEN p ELSE NextPow2(2 * p, n)

RECURSIVE FlattenTo(_, _)
\* the elements of the first n rows, rows in order and each row in order
FlattenTo(rows, n) == IF n = 0 THEN <<>> ELSE FlattenTo(rows, n - 1) \o rows[n]
Flatten(rows) == FlattenTo(rows, Len(rows))

\* initialize(): MIN_BUCKET_COUNT empty buckets
initialize == [i \in 1 .. MIN_BUCKET_COUNT |-> <<>>]

\* new SetHashBuckets(set): an empty table that remembers the set it was made for
HashBuckets(set) ==
    [data_ |-> initialize, size_ |-> 0, max_load_factor_ |-> DEFAULT_MAX_FACTOR,
     set |-> set, hasher_ |-> "hash"]

hash_clear(b) == [b EXCEPT !.data_ = initialize, !.size_ = 0]

row_size(b) == Len(b.data_)

capacity(b) == (Len(b.data_) * b.max_load_factor_[1]) \div b.max_load_factor_[2]

\* a rehash length that is raised to the minimum and not rounded
rehash_length_unrounded(length) ==
    IF length > MIN_BUCKET_COUNT THEN length ELSE MIN_BUCKET_COUNT

\* the length rehash(length) settles on
rehash_length(length) ==
    LET atLeast == IF length > MIN_BUCKET_COUNT THEN length ELSE MIN_BUCKET_COUNT
    IN  NextPow2(1, atLeast)

\* rehash(length) throws: data[index] is undefined for a negative index, which
\* hasher % length is for a negative hash value that length does not divide.
rehash_throws(b, length, val) ==
    LET n == rehash_length(length)
        all == Flatten(b.data_)
    IN  \E i \in 1 .. Len(all) : JsRem(hasher_(b, fetcher_(val, all[i])), n) < 0

\* a rehash that leaves the elements out of the new buckets
rehash_empties(b, length, val) ==
    [b EXCEPT !.data_ = [i \in 1 .. rehash_length(length) |-> <<>>]]

\* rehash(length): every element moves to the bucket hasher % length, rows and
\* row elements taken in order.  Bucket i of the code is data_[i + 1].  The
\* new buckets are assigned to data_ by the last statement: a rehash that
\* throws leaves the table as it was.
rehash(b, length, val) ==
    LET n == rehash_length(length)
        all == Flatten(b.data_)
        data == [i \in 1 .. n |->
                   SelectSeq(all, LAMBDA element :
                       JsRem(hasher_(b, fetcher_(val, element)), n) = i - 1)]
    IN  IF rehash_throws(b, length, val) THEN b ELSE [b EXCEPT !.data_ = data]

\* the length reserve(length) hands to rehash
reserve_length(b, length) ==
    (length * b.max_load_factor_[2]) \div b.max_load_factor_[1]

reserve_throws(b, length, val) ==
    length > capacity(b) /\ rehash_throws(b, reserve_length(b, length), val)

\* a reserve that rehashes whatever the capacity is
reserve_unguarded(b, length, val) == rehash(b, reserve_length(b, length), val)

reserve(b, length, val) ==
    IF length > capacity(b)
    THEN rehash(b, reserve_length(b, length), val)
    ELSE b

max_load_factor(b, z) == [b EXCEPT !.max_load_factor_ = z]

index_by_key(b, key) == JsAnd(hasher_(b, key), Len(b.data_) - 1)
index_by_value(b, elem, val) == index_by_key(b, fetcher_(val, elem))

RECURSIVE FirstMatch(_, _, _)
FirstMatch(bucket, key, val) ==
    IF bucket = <<>> THEN NULL
    ELSE IF predicator_(key, fetcher_(val, Head(bucket))) THEN Head(bucket)
    ELSE FirstMatch(Tail(bucket), key, val)

\* HashBuckets.find: the first element of the key's bucket with an equal key
hash_find(b, key, val) == FirstMatch(b.data_[index_by_key(b, key) + 1], key, val)

\* HashBuckets.insert throws: its reserve does, after ++size_
hash_insert_throws(b, elem, val) ==
    LET cap == capacity(b)
        b1 == [b EXCEPT !.size_ = @ + 1]
    IN  b1.size_ > cap /\ reserve_throws(b1, cap * 2, val)

\* HashBuckets.insert; an insert that throws has counted the element and has
\* not stored it
hash_insert(b, elem, val) ==
    LET cap == capacity(b)
        b1 == [b EXCEPT !.size_ = @ + 1]
        b2 == IF b1.size_ > cap THEN reserve(b1, cap * 2, val) ELSE b1
        index == index_by_value(b2, elem, val)
    IN  IF hash_insert_throws(b, elem, val) THEN b1
        ELSE [b2 EXCEPT !.data_[index + 1] = Append(@, elem)]

\* HashBuckets.erase that forgets the size counter
hash_erase_keeps_size(b, elem, val) ==
    LET index == index_by_value(b, elem, val)
        bucket == b.data_[index + 1]
        i == IndexOf(bucket, elem)
    IN  IF i = 0 THEN b
        ELSE [b EXCEPT !.data_[index + 1] = RemoveAt(bucket, i)]

\* HashBuckets.erase that looks for the element by the equality of its key
hash_erase_by_key(b, elem, val) ==
    LET index == index_by_value(b, elem, val)
        bucket == b.data_[index + 1]
        i == IndexOf(bucket, FirstMatch(bucket, fetcher_(val, elem), val))
    IN  IF i = 0 THEN b
        ELSE [b EXCEPT !.data_[index + 1] = RemoveAt(bucket, i), !.size_ = @ - 1]

\* HashBuckets.erase: the element is looked for by identity in its bucket
hash_erase(b, elem, val) ==
    LET index == index_by_value(b, elem, val)
        bucket == b.data_[index + 1]
        i == IndexOf(bucket, elem)
    IN  IF i = 0 THEN b
        ELSE [b EXCEPT !.data_[index + 1] = RemoveAt(bucket, i), !.size_ = @ - 1]

\* ------------------------------------------- range algorithms on a Vector
\* A Vector is a sequence; the iterator at position i is i, and end() of a
\* Vector of n elements is n + 1.

\* the predicates a caller passes: <<"less", t>> is val < t (the _Pred of
\* test_partitions with its bound t), <<"even", 0>> is val % 2 = 0
Preds == {<<"less", t>> : t \in 0 .. MaxElem + 1} \cup {<<"even", 0>>}
Pred(p, val) == IF p[1] = "less" THEN val < p[2] ELSE val % 2 = 0

\* iter_swap(x, y)
iter_swap(v, x, y) == [v EXCEPT ![x] = v[y], ![y] = v[x]]

RECURSIVE SkipTrue(_, _, _, _)
\* while (pred(first.value)) first = first.next(), up to last
SkipTrue(v, first, last, p) ==
    IF first # last /\ Pred(p, v[first]) THEN SkipTrue(v, first + 1, last, p) ELSE first

RECURSIVE BackToTrue(_, _, _, _)
\* do last = last.prev() while (!pred(last.value)), down to first
BackToTrue(v, first, last, p) ==
    LET l == last - 1 IN
    IF l = first \/ Pred(p, v[l]) THEN l ELSE BackToTrue(v, first, l, p)

\* a partition that returns the range as it was
partition_unmoved(v, first, last, p) == [v |-> v, ret |-> first]

RECURSIVE partition(_, _, _, _)
\* partition(first, last, pred): elements that satisfy pred are swapped to the
\* front; returns the Vector and the iterator to the first element of the rest
partition(v, first, last, p) ==
    IF first = last THEN [v |-> v, ret |-> last]
    ELSE LET f == SkipTrue(v, first, last, p) IN
         IF f = last THEN [v |-> v, ret |-> f]
         ELSE LET l == BackToTrue(v, f, last, p) IN
              IF l = f THEN [v |-> v, ret |-> f]
              ELSE partition(iter_swap(v, f, l), f + 1, l, p)

RECURSIVE NoneTrue(_, _, _, _)
NoneTrue(v, first, last, p) ==
    first = last \/ (~Pred(p, v[first]) /\ NoneTrue(v, first + 1, last, p))

\* is_partitioned(first, last, pred): past the leading elements that satisfy
\* pred no element satisfies it
is_partitioned(v, first, last, p) == NoneTrue(v, SkipTrue(v, first, last, p), last, p)

\* reverse(first, last)
reverse(v, first, last) ==
    [k \in 1 .. Len(v) |-> IF first <= k /\ k < last THEN v[first + last - 1 - k] ELSE v[k]]

RECURSIVE Ascent(_, _)
\* the walk of next_permutation back from i: the position left of the first
\* x with v[x - 1] < v[x], 0 when the walk reaches first without one
Ascent(v, i) ==
    IF v[i - 1] < v[i] THEN i - 1
    ELSE IF i - 1 = 1 THEN 0
    ELSE Ascent(v, i - 1)

RECURSIVE LastGreater(_, _, _)
\* while (!comp(i.value, y.value)) y = y.prev()
LastGreater(v, i, y) == IF v[i] < v[y] THEN y ELSE LastGreater(v, i, y - 1)

\* a next_permutation that gives up at once
next_permutation_gives_up(v) == [v |-> v, ret |-> 0]

\* next_permutation(first, last) over a whole Vector, with std.less: the next
\* arrangement in lexicographic order and 1 (true), or the first arrangement
\* and 0 (false) after the last one
next_permutation(v) ==
    IF Len(v) < 2 THEN [v |-> v, ret |-> 0]
    ELSE LET i == Ascent(v, Len(v)) IN
         IF i = 0 THEN [v |-> reverse(v, 1, Len(v) + 1), ret |-> 0]
         ELSE LET y == LastGreater(v, i, Len(v)) IN
              [v |-> reverse(iter_swap(v, i, y), i + 1, Len(v) + 1), ret |-> 1]

RECURSIVE Descent(_, _)
\* the walk of prev_permutation: the position left of the first x with
\* v[x] < v[x - 1], 0 when there is none
Descent(v, i) ==
    IF v[i] < v[i - 1] THEN i - 1
    ELSE IF i - 1 = 1 THEN 0
    ELSE Descent(v, i - 1)

RECURSIVE LastLess(_, _, _)
\* while (!comp(y.value, i.value)) y = y.prev()
LastLess(v, i, y) == IF v[y] < v[i] THEN y ELSE LastLess(v, i, y - 1)

\* prev_permutation(first, last) over a whole Vector, with std.less
prev_permutation(v) ==
    IF Len(v) < 2 THEN [v |-> v, ret |-> 0]
    ELSE LET i == Descent(v, Len(v)) IN
         IF i = 0 THEN [v |-> reverse(v, 1, Len(v) + 1), ret |-> 0]
         ELSE LET y == LastLess(v, i, Len(v)) IN
              [v |-> reverse(iter_swap(v, i, y), i + 1, Len(v) + 1), ret |-> 1]

\* ------------------------------------------------------ container facade
VARIABLES
    shape,          \* the class of the two containers
    data_,          \* data_[c]: the Ordered Store of container c, a sequence of handles
    value,          \* value[h]: the element the live handle h refers to
    tree_,          \* tree_[c]: [root, compare], the tree of a tree container
    hash_buckets_,  \* hash_buckets_[c]: the bucket table of a hash container
    uid,            \* the next creation id
    key_comp,       \* the comparator the tree containers were constructed with
    call            \* the last call of a range algorithm: its Vector and result

vars == <<shape, data_, value, tree_, hash_buckets_, uid, key_comp, call>>

\* no range algorithm called
NoCall == [op |-> "none", v |-> <<>>, before |-> <<>>, pred |-> <<"less", 0>>,
           ret |-> 0, cnt |-> 0]

Shapes == {"TreeSet", "TreeMultiSet", "HashSet", "HashMultiSet"}
IsTree == shape \in {"TreeSet", "TreeMultiSet"}
IsHash == ~IsTree
IsMulti == shape \in {"TreeMultiSet", "HashMultiSet"}
IsUnique == ~IsMulti

\* base.RATIO and base.MAX_RATIO of the hash containers
RATIO == 1
MAX_RATIO == 2

\* The mutable state as one record, so that operations compose.
World == [data_ |-> data_, value |-> value, tree_ |-> tree_,
          hash_buckets_ |-> hash_buckets_, uid |-> uid]

\* new AtomicTree(compare)
AtomicTree(cmp) == [root |-> <<>>, compare |-> cmp]

\* An iterator is the container it was made for and a handle; the handle of
\* end() is NULL.
SetIterator(source, node) == [source |-> source, node |-> node]
end(c) == SetIterator(c, NULL)
equal_to(x, y) == x.source = y.source /\ x.node = y.node
size(w, c) == Len(w.data_[c])

\* a next() that steps from the last element back to the first
next_circular(w, c, h) ==
    LET i == IndexOf(w.data_[c], h) IN
    IF i = Len(w.data_[c]) THEN w.data_[c][1] ELSE w.data_[c][i + 1]

\* it.next() within the Store of c
next(w, c, h) ==
    LET i == IndexOf(w.data_[c], h) IN
    IF i = Len(w.data_[c]) THEN NULL ELSE w.data_[c][i + 1]

\* List.insert(position, val): a new node before position (NULL is end()).
list_insert(w, c, pos, val) ==
    LET store == w.data_[c]
        at == IF pos = NULL THEN Len(store) + 1 ELSE IndexOf(store, pos)
    IN  [w EXCEPT !.data_[c] = InsertAt(store, at, w.uid),
                  !.value = (w.uid :> val) @@ w.value,
                  !.uid = w.uid + 1]

\* List.erase(position): unlink the node.
list_erase(w, c, h) ==
    [w EXCEPT !.data_[c] = RemoveAt(@, IndexOf(@, h)),
              !.value = [x \in (DOMAIN w.value) \ {h} |-> w.value[x]]]

\* TreeSet.handle_insert and TreeMultiSet.handle_insert
TreeSet_handle_insert(w, c, item) ==
    [w EXCEPT !.tree_[c].root = tree_insert(@, w.tree_[c].compare, IsMulti, w.value, item)]

\* a handle_erase that leaves the tree as it was
TreeSet_handle_erase_skipped(w, c, item) == w

\* TreeSet.handle_erase and TreeMultiSet.handle_erase
TreeSet_handle_erase(w, c, item) ==
    [w EXCEPT !.tree_[c].root = tree_erase(@, item)]

\* HashSet.handle_insert and HashMultiSet.handle_insert
HashSet_handle_insert(w, c, item) ==
    [w EXCEPT !.hash_buckets_[c] = hash_insert(@, item, w.value)]

\* HashSet.handle_erase and HashMultiSet.handle_erase
HashSet_handle_erase(w, c, item) ==
    [w EXCEPT !.hash_buckets_[c] = hash_erase(@, item, w.value)]

\* SetContainer.handleInsert, abstract: the class of the container decides
handle_insert(w, c, item) ==
    IF IsTree THEN TreeSet_handle_insert(w, c, item) ELSE HashSet_handle_insert(w, c, item)

\* SetContainer.handleErase, abstract: the class of the container decides
handle_erase(w, c, item) ==
    IF IsTree THEN TreeSet_handle_erase(w, c, item) ELSE HashSet_handle_erase(w, c, item)

\* SetContainer.insert(hint, val): link a node before hint and register it.
insert_by_hint(w, c, hint, val) == handle_insert(list_insert(w, c, hint, val), c, w.uid)

\* SetContainer.erase(it): unregister the handle and unlink its node.
erase_by_iterator(w, c, h) == list_erase(handle_erase(w, c, h), c, h)

\* TreeSet.find without the test that the node found carries an equal key
TreeSet_find_nearest(w, c, val) ==
    LET node == tree_find(w.tree_[c].root, w.tree_[c].compare, w.value, val) IN
    IF node = NULL THEN end(c) ELSE SetIterator(c, node)

\* TreeSet.find
TreeSet_find(w, c, val) ==
    LET node == tree_find(w.tree_[c].root, w.tree_[c].compare, w.value, val) IN
    IF node = NULL \/ ~std_equal_to(w.value[node], val)
    THEN end(c)
    ELSE SetIterator(c, node)

\* TreeMultiSet.find
TreeMultiSet_find(w, c, val) ==
    LET node == nearest_by_key(w.tree_[c].root, w.tree_[c].compare, w.value, val) IN
    IF node = NULL \/ ~std_equal_to(val, w.value[node])
    THEN end(c)
    ELSE SetIterator(c, node)

\* SetHashBuckets.find: a miss is the end() of the set the table was made for.
SetHashBuckets_find(b, val, value_) ==
    LET it == hash_find(b, val, value_) IN
    IF it = NULL THEN end(b.set) ELSE SetIterator(b.set, it)

\* HashSet.find and HashMultiSet.find
HashSet_find(w, c, val) == SetHashBuckets_find(w.hash_buckets_[c], val, w.value)

find(w, c, val) ==
    CASE shape = "TreeSet" -> TreeSet_find(w, c, val)
      [] shape = "TreeMultiSet" -> TreeMultiSet_find(w, c, val)
      [] OTHER -> HashSet_find(w, c, val)

\* TreeSet.insert_by_val
TreeSet_insert_by_val(w, c, val) ==
    LET node == tree_find(w.tree_[c].root, w.tree_[c].compare, w.value, val) IN
    IF node # NULL /\ std_equal_to(w.value[node], val)
    THEN [w |-> w, first |-> SetIterator(c, node), second |-> FALSE]
    ELSE LET it == IF node = NULL THEN NULL
                   ELSE IF std_less(w.value[node], val) THEN next(w, c, node)
                   ELSE node
         IN  [w |-> insert_by_hint(w, c, it, val),
              first |-> SetIterator(c, w.uid), second |-> TRUE]

RECURSIVE SkipLess(_, _, _, _)
\* while (it != end() && std.less(it.value, val)) it = it.next()
SkipLess(w, c, it, val) ==
    IF it # NULL /\ std_less(w.value[it], val)
    THEN SkipLess(w, c, next(w, c, it), val)
    ELSE it

\* TreeMultiSet.insert_by_val
TreeMultiSet_insert_by_val(w, c, val) ==
    LET node == nearest_by_key(w.tree_[c].root, w.tree_[c].compare, w.value, val)
        it == IF node = NULL THEN NULL
              ELSE IF std_equal_to(w.value[node], val) THEN next(w, c, node)
              ELSE IF std_less(w.value[node], val)
                   THEN SkipLess(w, c, next(w, c, node), val)
              ELSE node
    IN  [w |-> insert_by_hint(w, c, it, val),
         first |-> SetIterator(c, w.uid), second |-> TRUE]

\* HashSet.insert_by_val
HashSet_insert_by_val(w, c, val) ==
    LET it == HashSet_find(w, c, val) IN
    IF ~equal_to(it, end(c))
    THEN [w |-> w, first |-> it, second |-> FALSE]
    ELSE [w |-> handle_insert(list_insert(w, c, NULL, val), c, w.uid),
          first |-> SetIterator(c, w.uid), second |-> TRUE]

\* HashMultiSet.insert_by_val
HashMultiSet_insert_by_val(w, c, val) ==
    [w |-> handle_insert(list_insert(w, c, NULL, val), c, w.uid),
     first |-> SetIterator(c, w.uid), second |-> TRUE]

\* TreeSet.lower_bound
TreeSet_lower_bound(w, c, val) ==
    LET node == tree_find(w.tree_[c].root, w.tree_[c].compare, w.value, val) IN
    IF node = NULL THEN end(c)
    ELSE IF std_less(w.value[node], val) THEN SetIterator(c, next(w, c, node))
    ELSE SetIterator(c, node)

\* TreeSet.upper_bound
TreeSet_upper_bound(w, c, val) ==
    LET node == tree_find(w.tree_[c].root, w.tree_[c].compare, w.value, val) IN
    IF node = NULL THEN end(c)
    ELSE IF ~std_equal_to(w.value[node], val) /\ ~std_less(w.value[node], val)
    THEN SetIterator(c, node)
    ELSE SetIterator(c, next(w, c, node))

\* TreeMultiSet.lower_bound
TreeMultiSet_lower_bound(w, c, val) ==
    LET node == nearest_by_key(w.tree_[c].root, w.tree_[c].compare, w.value, val) IN
    IF node = NULL THEN end(c)
    ELSE IF std_equal_to(w.value[node], val) THEN SetIterator(c, node)
    ELSE SetIterator(c, SkipLess(w, c, node, val))

RECURSIVE SkipLessOrEqual(_, _, _, _)
\* while (it != end() && (std.equal_to(it.value, val) || std.less(it.value, val)))
\*     it = it.next()
SkipLessOrEqual(w, c, it, val) ==
    IF it # NULL /\ (std_equal_to(w.value[it], val) \/ std_less(w.value[it], val))
    THEN SkipLessOrEqual(w, c, next(w, c, it), val)
    ELSE it

\* TreeMultiSet.upper_bound
TreeMultiSet_upper_bound(w, c, val) ==
    LET node == nearest_by_key(w.tree_[c].root, w.tree_[c].compare, w.value, val) IN
    IF node = NULL THEN end(c)
    ELSE SetIterator(c, SkipLessOrEqual(w, c, node, val))

\* TreeMultiSet.equal_range
TreeMultiSet_equal_range(w, c, val) ==
    [first |-> TreeMultiSet_lower_bound(w, c, val),
     second |-> TreeMultiSet_upper_bound(w, c, val)]

\* MultiMapTree.upper_bound
MultiMapTree_upper_bound(w, c, key) ==
    LET node == Nearest_by_key(w.tree_[c].root, w.tree_[c].compare, w.value, key, RIGHT) IN
    IF node = NULL THEN end(c)
    ELSE IF compare(w.tree_[c].compare, key, w.value[node]) THEN SetIterator(c, node)
    ELSE SetIterator(c, next(w, c, node))

insert_by_val(w, c, val) ==
    CASE shape = "TreeSet" -> TreeSet_insert_by_val(w, c, val)
      [] shape = "TreeMultiSet" -> TreeMultiSet_insert_by_val(w, c, val)
      [] shape = "HashSet" -> HashSet_insert_by_val(w, c, val)
      [] OTHER -> HashMultiSet_insert_by_val(w, c, val)

\* SetContainer.erase(val): the elements found through the Index are erased,
\* one on a unique container and every one of them on a multi container.
RECURSIVE erase_all(_, _, _, _)
erase_all(w, c, val, n) ==
    LET it == find(w, c, val) IN
    IF it.node = NULL THEN [w |-> w, n |-> n]
    ELSE erase_all(erase_by_iterator(w, c, it.node), c, val, n + 1)

erase_by_val(w, c, val) ==
    LET it == find(w, c, val) IN
    IF it.node = NULL THEN [w |-> w, n |-> 0]
    ELSE IF IsUnique THEN [w |-> erase_by_iterator(w, c, it.node), n |-> 1]
    ELSE erase_all(w, c, val, 0)

RECURSIVE erase_handles(_, _, _)
erase_handles(w, c, hs) ==
    IF hs = <<>> THEN w
    ELSE erase_handles(erase_by_iterator(w, c, Head(hs)), c, Tail(hs))

\* SetContainer.erase(begin, end): the handles at positions i .. j - 1
erase_by_range(w, c, i, j) == erase_handles(w, c, SubSeq(w.data_[c], i, j - 1))

\* SetContainer.insert_by_range: insert_by_val of every element
RECURSIVE insert_each(_, _, _)
insert_each(w, c, items) ==
    IF items = <<>> THEN w
    ELSE insert_each(insert_by_val(w, c, Head(items)).w, c, Tail(items))

\* HashSet.insert_by_range and HashMultiSet.insert_by_range reserve first.
insert_by_range(w, c, items) ==
    IF IsTree THEN insert_each(w, c, items)
    ELSE LET total == size(w, c) + Len(items)
             b == w.hash_buckets_[c]
             w1 == IF total > b.size_ * MAX_RATIO
                   THEN [w EXCEPT !.hash_buckets_[c] = reserve(b, total * RATIO, w.value)]
                   ELSE w
         IN  insert_each(w1, c, items)

\* clear() of the four classes: the Store is emptied; a tree container makes a
\* new AtomicTree(), a hash container clears its table.
clear(w, c) ==
    LET w1 == [w EXCEPT !.data_[c] = <<>>,
                        !.value = [x \in (DOMAIN w.value) \ SeqToSet(w.data_[c]) |-> w.value[x]]]
    IN  IF IsTree
        THEN [w1 EXCEPT !.tree_[c] = AtomicTree("less")]
        ELSE [w1 EXCEPT !.hash_buckets_[c] = hash_clear(@)]

\* assign(begin, end): the hash classes clear and reserve their table, then
\* SetContainer.assign clears the container and inserts the range.
assign(w, c, items) ==
    LET w1 == IF IsHash
              THEN [w EXCEPT !.hash_buckets_[c] =
                        reserve(hash_clear(@), Len(items) * RATIO, w.value)]
              ELSE w
    IN  insert_by_range(clear(w1, c), c, items)

\* a swap that exchanges the Stores and leaves each Index where it was
swap_data_only(w, c) ==
    LET o == Other(c) IN
    [w EXCEPT !.data_ = [@ EXCEPT ![c] = w.data_[o], ![o] = w.data_[c]]]

\* swap(obj) between two containers of one class: swap_tree_set
swap_tree_set(w, c) ==
    LET o == Other(c) IN
    [w EXCEPT !.data_ = [@ EXCEPT ![c] = w.data_[o], ![o] = w.data_[c]],
              !.tree_ = [@ EXCEPT ![c] = w.tree_[o], ![o] = w.tree_[c]],
              !.hash_buckets_ = [@ EXCEPT ![c] = w.hash_buckets_[o], ![o] = w.hash_buckets_[c]]]

\* new TreeSet(compare) / new HashSet() in the place of c: an empty Store and
\* an empty Index made for c, with the comparator c was constructed with and
\* the load factor its table has been given
Fresh(w, c) ==
    [w EXCEPT !.data_[c] = <<>>,
              !.value = [x \in (DOMAIN w.value) \ SeqToSet(w.data_[c]) |-> w.value[x]],
              !.tree_[c] = AtomicTree(key_comp),
              !.hash_buckets_[c] =
                  max_load_factor(HashBuckets(c), w.hash_buckets_[c].max_load_factor_)]

\* ---------------------------------------------------------------- actions
Commit(w) ==
    /\ data_' = w.data_
    /\ value' = w.value
    /\ tree_' = w.tree_
    /\ hash_buckets_' = w.hash_buckets_
    /\ uid' = w.uid
    /\ UNCHANGED <<shape, key_comp, call>>

\* the sequences of keys a range insert or an assign is given
MaxRange == 2
Ranges == UNION {[1 .. n -> Keys] : n \in 0 .. MaxRange}

\* Two empty containers of one class.  Tree containers are constructed with a
\* comparator; the table of a hash container has its load factor set before use.
Init ==
    /\ shape \in Shapes
    /\ data_ = [c \in Conts |-> <<>>]
    /\ value = <<>>
    /\ key_comp \in Comparators
    /\ IsHash => key_comp = "less"
    /\ tree_ = [c \in Conts |-> AtomicTree(key_comp)]
    /\ \E z \in LoadFactors :
         /\ IsTree => z = DEFAULT_MAX_FACTOR
         /\ hash_buckets_ = [c \in Conts |-> max_load_factor(HashBuckets(c), z)]
    /\ uid = 1
    /\ call = NoCall

\* insert(val)
Insert(c, val) ==
    /\ uid <= MaxUid
    /\ Commit(insert_by_val(World, c, val).w)

\* insert(hint, val), the hint being an element of the container or end()
InsertHint(c, hint, val) ==
    /\ uid <= MaxUid
    /\ hint \in SeqToSet(data_[c]) \cup {NULL}
    /\ Commit(insert_by_hint(World, c, hint, val))

\* insert(begin, end)
InsertRange(c, items) ==
    /\ uid + Len(items) - 1 <= MaxUid
    /\ Commit(insert_by_range(World, c, items))

\* erase(val)
EraseKey(c, val) == Commit(erase_by_val(World, c, val).w)

\* erase(it) with an iterator to an element of the container
EraseIt(c, h) ==
    /\ h \in SeqToSet(data_[c])
    /\ Commit(erase_by_iterator(World, c, h))

\* erase(begin, end) with begin at position i and end at position j
EraseRange(c, i, j) ==
    /\ 1 <= i /\ i < j /\ j <= Len(data_[c]) + 1
    /\ Commit(erase_by_range(World, c, i, j))

Clear(c) == Commit(clear(World, c))

Assign(c, items) ==
    /\ uid + Len(items) - 1 <= MaxUid
    /\ Commit(assign(World, c, items))

Swap(c) == Commit(swap_tree_set(World, c))

\* hash_buckets_.max_load_factor(z) of a hash container
MaxLoadFactor(c, z) ==
    /\ IsHash
    /\ Commit([World EXCEPT !.hash_buckets_[c] = max_load_factor(@, z)])

\* hash_buckets_.reserve(length) of a hash container
Reserve(c, length) ==
    /\ IsHash
    /\ rehash_length((length * hash_buckets_[c].max_load_factor_[2])
                        \div hash_buckets_[c].max_load_factor_[1]) <= MaxBuckets
    /\ Commit([World EXCEPT !.hash_buckets_[c] = reserve(@, length, value)])

Next ==
    \/ \E c \in Conts, val \in Keys : Insert(c, val)
    \/ \E c \in Conts, hint \in Handles \cup {NULL}, val \in Keys : InsertHint(c, hint, val)
    \/ \E c \in Conts, items \in Ranges : InsertRange(c, items)
    \/ \E c \in Conts, val \in Keys : EraseKey(c, val)
    \/ \E c \in Conts, h \in Handles : EraseIt(c, h)
    \/ \E c \in Conts, i \in 1 .. MaxUid, j \in 1 .. MaxUid + 1 : EraseRange(c, i, j)
    \/ \E c \in Conts : Clear(c)
    \/ \E c \in Conts, items \in Ranges : Assign(c, items)
    \/ \E c \in Conts : Swap(c)

Spec == Init /\ [][Next]_vars

\* The containers under insert(val), erase(val) and erase(it) alone.
NextInsertErase ==
    \/ \E c \in Conts, val \in Keys : Insert(c, val)
    \/ \E c \in Conts, val \in Keys : EraseKey(c, val)
    \/ \E c \in Conts, h \in Handles : EraseIt(c, h)

SpecInsertErase == Init /\ [][NextInsertErase]_vars

\* The bucket table under its own operations: one hash container whose table
\* is also reserved and given new load factors between inserts and erases.
InitBuckets ==
    /\ shape \in {"HashSet", "HashMultiSet"}
    /\ data_ = [c \in Conts |-> <<>>]
    /\ value = <<>>
    /\ tree_ = [c \in Conts |-> AtomicTree("less")]
    /\ hash_buckets_ = [c \in Conts |-> HashBuckets(c)]
    /\ uid = 1
    /\ key_comp = "less"
    /\ call = NoCall

\* hash_buckets_.rehash(length) of a hash container
Rehash(c, length) ==
    /\ IsHash
    /\ rehash_length(length) <= MaxBuckets
    /\ Commit([World EXCEPT !.hash_buckets_[c] = rehash(@, length, value)])

NextBuckets ==
    \/ \E val \in Keys : Insert(1, val)
    \/ \E h \in Handles : EraseIt(1, h)
    \/ Clear(1)
    \/ \E z \in TableLoadFactors : MaxLoadFactor(1, z)
    \/ \E length \in ReserveLengths : Reserve(1, length)
    \/ \E length \in RehashLengths : Rehash(1, length)

SpecBuckets == InitBuckets /\ [][NextBuckets]_vars

\* A table on its own, constructed with a hasher of its caller's: its
\* elements are handles on keys that no Store links.
InitHashers ==
    /\ shape = "HashSet"
    /\ data_ = [c \in Conts |-> <<>>]
    /\ value = <<>>
    /\ tree_ = [c \in Conts |-> AtomicTree("less")]
    /\ \E h \in Hashers :
         hash_buckets_ = [c \in Conts |-> [HashBuckets(c) EXCEPT !.hasher_ = h]]
    /\ uid = 1
    /\ key_comp = "less"
    /\ call = NoCall

\* hash_buckets_.insert(element) of a new element of key val
TableInsert(val) ==
    /\ uid <= MaxUid
    /\ LET valueNew == Append(value, val)
       IN  Commit([World EXCEPT !.value = valueNew, !.uid = @ + 1,
                                !.hash_buckets_[1] = hash_insert(@, uid, valueNew)])

\* hash_buckets_.erase(element) of an element that was made, stored or not
TableErase(h) ==
    /\ h \in DOMAIN value
    /\ Commit([World EXCEPT !.hash_buckets_[1] = hash_erase(@, h, value)])

\* hash_buckets_.clear()
TableClear ==
    /\ IsHash
    /\ Commit([World EXCEPT !.hash_buckets_[1] = hash_clear(@)])

NextHashers ==
    \/ \E val \in Keys : TableInsert(val)
    \/ \E h \in Handles : TableErase(h)
    \/ TableClear
    \/ \E z \in HasherLoadFactors : MaxLoadFactor(1, z)
    \/ \E length \in ReserveLengths : Reserve(1, length)
    \/ \E length \in RehashLengths : Rehash(1, length)

SpecHashers == InitHashers /\ [][NextHashers]_vars

\* The Search Tree Index under insert and erase: one TreeSet with the default
\* comparator and more keys, so that the tree grows to MaxTreeUid nodes and
\* every repair case of insert and erase is met.
InitTree ==
    /\ shape = "TreeSet"
    /\ data_ = [c \in Conts |-> <<>>]
    /\ value = <<>>
    /\ key_comp = "less"
    /\ tree_ = [c \in Conts |-> AtomicTree(key_comp)]
    /\ hash_buckets_ = [c \in Conts |-> HashBuckets(c)]
    /\ uid = 1
    /\ call = NoCall

\* insert(val) with a key of 0 .. MaxTreeKey
TreeInsert(val) ==
    /\ uid <= MaxTreeUid
    /\ Commit(insert_by_val(World, 1, val).w)

\* erase(it) of an element of the container
TreeErase(h) ==
    /\ h \in SeqToSet(data_[1])
    /\ Commit(erase_by_iterator(World, 1, h))

NextTree ==
    \/ \E val \in 0 .. MaxTreeKey : TreeInsert(val)
    \/ \E h \in 1 .. MaxTreeUid : TreeErase(h)

SpecTree == InitTree /\ [][NextTree]_vars

\* A MultiMapTree on its own: its elements are handles on keys, ordered by
\* the comparator and, among equivalent keys, by their creation id.
InitMultiTree ==
    /\ shape = "TreeMultiSet"
    /\ data_ = [c \in Conts |-> <<>>]
    /\ value = <<>>
    /\ key_comp \in Comparators
    /\ tree_ = [c \in Conts |-> AtomicTree(key_comp)]
    /\ hash_buckets_ = [c \in Conts |-> HashBuckets(c)]
    /\ uid = 1
    /\ call = NoCall

\* MultiMapTree.insert(val) of a new element of key val: its uid is issued
\* before the insertion
MultiTreeInsert(val) ==
    /\ uid <= MaxMultiUid
    /\ LET valueNew == Append(value, val)
       IN  Commit([World EXCEPT
                    !.value = valueNew, !.uid = @ + 1,
                    !.tree_[1].root = tree_insert(@, key_comp, TRUE, valueNew, uid)])

\* erase(val) of an element of the tree
MultiTreeErase(h) ==
    /\ h \in SeqToSet(InOrder(tree_[1].root))
    /\ Commit([World EXCEPT !.tree_[1].root = tree_erase(@, h)])

NextMultiTree ==
    \/ \E val \in Keys : MultiTreeInsert(val)
    \/ \E h \in 1 .. MaxMultiUid : MultiTreeErase(h)

SpecMultiTree == InitMultiTree /\ [][NextMultiTree]_vars

\* MultiMapTree.insert(val) of a new element of key val into the tree of
\* container c: get_uid numbers the elements of every tree from one counter
MultiTreeInsertInto(c, val) ==
    /\ uid <= MaxMultiUid
    /\ LET valueNew == Append(value, val)
       IN  Commit([World EXCEPT
                    !.value = valueNew, !.uid = @ + 1,
                    !.tree_[c].root = tree_insert(@, key_comp, TRUE, valueNew, uid)])

NextTwoTrees == \E c \in Conts, val \in Keys : MultiTreeInsertInto(c, val)

\* two MultiMapTrees of one program, insertions into them interleaved
SpecTwoTrees == InitMultiTree /\ [][NextTwoTrees]_vars

\* The range algorithms on a Vector: the containers stay as constructed.
Idle ==
    /\ shape = "TreeSet"
    /\ data_ = [c \in Conts |-> <<>>]
    /\ value = <<>>
    /\ key_comp = "less"
    /\ tree_ = [c \in Conts |-> AtomicTree(key_comp)]
    /\ hash_buckets_ = [c \in Conts |-> HashBuckets(c)]
    /\ uid = 1

Vectors == UNION {[1 .. n -> 0 .. MaxElem] : n \in 0 .. MaxLen}

\* a Vector of any content, before any call
InitPartition ==
    /\ Idle
    /\ \E v \in Vectors : call = [NoCall EXCEPT !.v = v]

\* ranges.partition(v, pred)
Partition(p) ==
    /\ call' = [op |-> "partition", v |-> partition(call.v, 1, Len(call.v) + 1, p).v,
                before |-> call.v, pred |-> p,
                ret |-> partition(call.v, 1, Len(call.v) + 1, p).ret, cnt |-> 0]
    /\ UNCHANGED <<shape, data_, value, tree_, hash_buckets_, uid, key_comp>>

\* ranges.is_partitioned(v, pred)
IsPartitioned(p) ==
    /\ call' = [op |-> "is_partitioned", v |-> call.v, before |-> call.v, pred |-> p,
                ret |-> IF is_partitioned(call.v, 1, Len(call.v) + 1, p) THEN 1 ELSE 0,
                cnt |-> 0]
    /\ UNCHANGED <<shape, data_, value, tree_, hash_buckets_, uid, key_comp>>

NextPartition ==
    \/ \E p \in Preds : Partition(p)
    \/ \E p \in Preds : IsPartitioned(p)

SpecPartition == InitPartition /\ [][NextPartition]_vars

\* The loops of _Test_permutations: while (next_permutation(x)) ++cnt from
\* the ascending arrangement of 1 .. n, and while (prev_permutation(y)) ++cnt
\* from the descending one.  ret is the last value returned (1 before the
\* first call), cnt the number of calls that returned true.
InitPermutation ==
    /\ Idle
    /\ \E n \in 0 .. MaxPerm :
         \/ call = [op |-> "next_permutation", v |-> [i \in 1 .. n |-> i],
                    before |-> [i \in 1 .. n |-> i], pred |-> <<"less", 0>>,
                    ret |-> 1, cnt |-> 0]
         \/ call = [op |-> "prev_permutation", v |-> [i \in 1 .. n |-> n + 1 - i],
                    before |-> [i \in 1 .. n |-> n + 1 - i], pred |-> <<"less", 0>>,
                    ret |-> 1, cnt |-> 0]

\* one turn of while (ranges.next_permutation(x) === true) ++cnt
NextPermutation ==
    /\ call.op = "next_permutation"
    /\ call.ret = 1
    /\ LET r == next_permutation(call.v) IN
       call' = [call EXCEPT !.v = r.v, !.ret = r.ret, !.cnt = @ + r.ret]
    /\ UNCHANGED <<shape, data_, value, tree_, hash_buckets_, uid, key_comp>>

\* one turn of while (ranges.prev_permutation(y) === true) ++cnt
PrevPermutation ==
    /\ call.op = "prev_permutation"
    /\ call.ret = 1
    /\ LET r == prev_permutation(call.v) IN
       call' = [call EXCEPT !.v = r.v, !.ret = r.ret, !.cnt = @ + r.ret]
    /\ UNCHANGED <<shape, data_, value, tree_, hash_buckets_, uid, key_comp>>

NextLoops == NextPermutation \/ PrevPermutation

\* a loop whose condition holds takes its next turn
SpecPermutation == InitPermutation /\ [][NextLoops]_vars /\ WF_vars(NextLoops)

\* ------------------------------------------------------------- properties
\* the handles an Index holds: the tree left to right, the buckets row by row
IndexHandles(w, c) ==
    IF IsTree THEN InOrder(w.tree_[c].root) ELSE Flatten(w.hash_buckets_[c].data_)

Count(s, x) == Cardinality({i \in 1 .. Len(s) : s[i] = x})
Live(c) == SeqToSet(data_[c])
\* the keys of the Store of c in traversal order
Traversal(c) == [i \in 1 .. Len(data_[c]) |-> value[data_[c][i]]]
\* some element of c carries a key equal to key
Holds(c, key) == \E h \in Live(c) : std_equal_to(value[h], key)
\* the equivalence of keys a unique container is to keep apart
Equivalent(x, y) == IF IsTree THEN equivalent(key_comp, x, y) ELSE predicator_(x, y)

\* C1: in every state, the Index of a container holds as many handles as its
\* Store has elements (for a hash container the size counter agrees too),
\* every Store element has exactly one Index entry, and every Index entry is
\* one live element of that Store.
C1_IndexMatchesStore ==
    \A c \in Conts :
        LET ix == IndexHandles(World, c) IN
        /\ Len(ix) = Len(data_[c])
        /\ IsHash => hash_buckets_[c].size_ = Len(data_[c])
        /\ \A h \in Live(c) : Count(ix, h) = 1 /\ Count(data_[c], h) = 1
        /\ SeqToSet(ix) = Live(c)
        /\ Live(c) \subseteq DOMAIN value

\* C1 witness: three inserts and an erase later both containers hold an element.
C1_Witness ==
    /\ uid = MaxUid + 1
    /\ Len(data_[1]) = 1
    /\ Len(data_[2]) = 1
    /\ Len(IndexHandles(World, 1)) = 1
    /\ Len(IndexHandles(World, 2)) = 1

\* C2: every element stored in a container is found by its key: find(k)
\* returns a handle of that container whose payload equals k.
C2_FindAfterInsert ==
    \A c \in Conts : \A h \in Live(c) :
        LET it == find(World, c, value[h]) IN
        /\ it.node \in Live(c)
        /\ value[it.node] = value[h]

\* C3: the traversal of a unique tree set is in the order of the comparator
\* it was constructed with.
C3_TraversalInComparatorOrder ==
    shape = "TreeSet" =>
        \A c \in Conts : \A i, j \in 1 .. Len(data_[c]) :
            i < j => ~compare(key_comp, Traversal(c)[j], Traversal(c)[i])

\* C4: in a multi-key tree container, elements with equal keys appear in the
\* traversal in the order of their insertion.
C4_EqualKeysInInsertionOrder ==
    shape = "TreeMultiSet" =>
        \A c \in Conts : \A i, j \in 1 .. Len(data_[c]) :
            (i < j /\ Traversal(c)[i] = Traversal(c)[j]) => data_[c][i] < data_[c][j]

\* C5: a step that inserts into a hash container leaves
\* size <= bucket_count * max_load_factor.
C5_LoadFactorBound ==
    [][uid' = uid + 1 =>
          LET b == hash_buckets_'[1] IN
          b.size_ * b.max_load_factor_[2] <= row_size(b) * b.max_load_factor_[1]]_vars

\* C6: insert(val) on a unique container that holds an equal key returns
\* (the handle of that element, false) and changes nothing; otherwise it
\* returns (the new handle, true) and the size grows by one.
C6_InsertUnique ==
    IsUnique =>
        \A c \in Conts, val \in Keys :
            LET r == insert_by_val(World, c, val) IN
            IF Holds(c, val)
            THEN /\ r.second = FALSE
                 /\ r.w = World
                 /\ r.first.node \in Live(c)
                 /\ value[r.first.node] = val
            ELSE /\ r.second = TRUE
                 /\ r.first = SetIterator(c, uid)
                 /\ size(r.w, c) = size(World, c) + 1
                 /\ r.w.value[uid] = val

\* C7: no two elements of a unique set have equivalent keys.
C7_UniqueKeys ==
    IsUnique =>
        \A c \in Conts : \A i, j \in 1 .. Len(data_[c]) :
            i # j => ~Equivalent(Traversal(c)[i], Traversal(c)[j])

\* C8: erase(it) removes the erased handle alone: every other handle keeps its
\* payload, the remaining handles keep their order in the Store, the Index
\* holds exactly the remaining handles, and the other container is untouched.
C8_EraseKeepsOtherHandles ==
    \A c \in Conts : \A h \in Live(c) :
        LET w == erase_by_iterator(World, c, h) IN
        /\ w.data_[c] = SelectSeq(data_[c], LAMBDA x : x # h)
        /\ w.data_[Other(c)] = data_[Other(c)]
        /\ DOMAIN w.value = (DOMAIN value) \ {h}
        /\ \A x \in DOMAIN w.value : w.value[x] = value[x]
        /\ SeqToSet(IndexHandles(w, c)) = Live(c) \ {h}
        /\ IndexHandles(w, Other(c)) = IndexHandles(World, Other(c))

\* C8 witness: erase(it) of the middle one of three handles leaves the other two.
C8_Witness ==
    /\ Len(data_[1]) = 3
    /\ \E h \in Live(1) :
          LET w == erase_by_iterator(World, 1, h) IN
          /\ Len(w.data_[1]) = 2
          /\ h = data_[1][2]
          /\ w.data_[1] = <<data_[1][1], data_[1][3]>>

\* C9: erase(it) goes by the identity of the handle: of several handles with
\* equal keys in a multi container only the erased one leaves Store and Index.
C9_EraseByIdentity ==
    IsMulti =>
        \A c \in Conts : \A h \in Live(c) :
            LET w == erase_by_iterator(World, c, h)
                twins == {x \in Live(c) \ {h} : value[x] = value[h]}
            IN  /\ twins \subseteq SeqToSet(w.data_[c])
                /\ twins \subseteq SeqToSet(IndexHandles(w, c))
                /\ h \notin SeqToSet(w.data_[c])
                /\ h \notin SeqToSet(IndexHandles(w, c))
                /\ Len(w.data_[c]) = Len(data_[c]) - 1
                /\ Len(IndexHandles(w, c)) = Len(IndexHandles(World, c)) - 1

\* C9 witness: one of three handles of one key is erased from a multi container.
C9_Witness ==
    /\ IsMulti
    /\ Len(data_[1]) = 3
    /\ \A h \in Live(1) : value[h] = value[data_[1][1]]
    /\ \E h \in Live(1) :
          SeqToSet(IndexHandles(erase_by_iterator(World, 1, h), 1)) = Live(1) \ {h}

CountKey(c, key) == Cardinality({h \in Live(c) : std_equal_to(value[h], key)})

\* C11: erase(key) removes every element whose key equals key and returns
\* their number, 0 or 1 on a unique container: afterwards no such element is
\* stored, find(key) returns end() and the size has dropped by the count.
C11_EraseKeyCount ==
    \A c \in Conts, key \in Keys :
        LET r == erase_by_val(World, c, key) IN
        /\ r.n = CountKey(c, key)
        /\ IsUnique => r.n \in {0, 1}
        /\ size(r.w, c) = size(World, c) - r.n
        /\ \A h \in SeqToSet(r.w.data_[c]) : ~std_equal_to(r.w.value[h], key)
        /\ find(r.w, c, key) = end(c)

\* the positions of the Store of c whose key is not less than key
NotLess(c, key) == {i \in 1 .. Len(data_[c]) : ~compare(key_comp, Traversal(c)[i], key)}
\* the positions of the Store of c whose key is greater than key
Greater(c, key) == {i \in 1 .. Len(data_[c]) : compare(key_comp, key, Traversal(c)[i])}
\* the iterator to the first of the positions ps of the Store of c, end() if none
FirstAt(c, ps) ==
    IF ps = {} THEN end(c)
    ELSE SetIterator(c, data_[c][CHOOSE i \in ps : \A j \in ps : i <= j])

\* C12: lower_bound(k) of a multi-key tree container is the iterator to the
\* first element of the traversal whose key is not less than k, end() when
\* every key is less than k.
C12_LowerBound ==
    shape = "TreeMultiSet" =>
        \A c \in Conts, k \in Keys :
            TreeMultiSet_lower_bound(World, c, k) = FirstAt(c, NotLess(c, k))

\* C13: upper_bound(k) of a multi-key tree container is the iterator to the
\* first element of the traversal whose key is greater than k, end() when no
\* key is greater (TreeMultiSet.upper_bound and MultiMapTree.upper_bound).
C13_UpperBound ==
    shape = "TreeMultiSet" =>
        \A c \in Conts, k \in Keys :
            /\ TreeMultiSet_upper_bound(World, c, k) = FirstAt(c, Greater(c, k))
            /\ MultiMapTree_upper_bound(World, c, k) = FirstAt(c, Greater(c, k))

\* the handles a traversal from the iterator first reaches before it meets
\* the iterator second or end()
RangeOf(c, first, second) ==
    IF first.node = NULL THEN <<>>
    ELSE LET i == IndexOf(data_[c], first.node)
             j == IF second.node = NULL THEN 0 ELSE IndexOf(data_[c], second.node)
         IN  SubSeq(data_[c], i, IF j >= i THEN j - 1 ELSE Len(data_[c]))
\* the handles of c with key k in the order of their insertion
RECURSIVE InInsertionOrder(_, _, _)
InInsertionOrder(c, k, h) ==
    IF h = 0 THEN <<>>
    ELSE InInsertionOrder(c, k, h - 1)
            \o (IF h \in Live(c) /\ std_equal_to(value[h], k) THEN <<h>> ELSE <<>>)

\* C14: equal_range(k) of a multi-key tree container delimits exactly the
\* elements whose key equals k, in the order of their insertion; the range is
\* empty when k is absent.
C14_EqualRange ==
    shape = "TreeMultiSet" =>
        \A c \in Conts, k \in Keys :
            LET r == TreeMultiSet_equal_range(World, c, k) IN
            RangeOf(c, r.first, r.second) = InInsertionOrder(c, k, MaxUid)

AfterInserts(w, c, k1, k2, k3) ==
    LET r1 == insert_by_val(w, c, k1)
        r2 == insert_by_val(r1.w, c, k2)
        r3 == insert_by_val(r2.w, c, k3)
    IN  [flags |-> <<r1.second, r2.second, r3.second>>,
         keys |-> [i \in 1 .. Len(r3.w.data_[c]) |-> r3.w.value[r3.w.data_[c][i]]],
         found |-> [k \in Keys |-> find(r3.w, c, k)]]

\* C16, the emptied container: after clear() the container has size 0 (so
\* begin() is end()), find(k) is the container's end() for every key, and a
\* hash table has 8 empty buckets and size 0.
ClearedIsEmpty(c) ==
    LET w == clear(World, c) IN
    /\ size(w, c) = 0
    /\ \A k \in Keys : find(w, c, k) = end(c)
    /\ IsHash => /\ row_size(w.hash_buckets_[c]) = 8
                 /\ w.hash_buckets_[c].size_ = 0
                 /\ \A i \in 1 .. 8 : w.hash_buckets_[c].data_[i] = <<>>

\* C16, the inserts that follow: any three inserts after clear() return the
\* flags, give the traversal and are found as on a newly constructed container.
ClearedAsFresh(c) ==
    \A k1, k2, k3 \in Keys :
        AfterInserts(clear(World, c), c, k1, k2, k3) =
            AfterInserts(Fresh(World, c), c, k1, k2, k3)

\* C16: clear() reinitializes Store and Index to empty, and inserts afterwards
\* behave as on a freshly constructed container.
C16_ClearReinitializes == \A c \in Conts : ClearedIsEmpty(c) /\ ClearedAsFresh(c)

RECURSIVE BlackHeight(_)
\* the number of black nodes on every path from t down to a leaf, the null
\* leaf counted; -1 when two paths differ
BlackHeight(t) ==
    IF t = <<>> THEN 1
    ELSE LET l == BlackHeight(t[LEFT])
             r == BlackHeight(t[RIGHT])
         IN  IF l = -1 \/ r = -1 \/ l # r THEN -1
             ELSE l + (IF t[1] = BLACK THEN 1 ELSE 0)

RECURSIVE NoRedRed(_)
\* no red node of t has a red child
NoRedRed(t) ==
    \/ t = <<>>
    \/ /\ t[1] = RED => fetch_color(t[LEFT]) = BLACK /\ fetch_color(t[RIGHT]) = BLACK
       /\ NoRedRed(t[LEFT])
       /\ NoRedRed(t[RIGHT])

RedBlack(t) == fetch_color(t) = BLACK /\ NoRedRed(t) /\ BlackHeight(t) # -1

RECURSIVE Nodes(_)
Nodes(t) == IF t = <<>> THEN 0 ELSE Nodes(t[LEFT]) + 1 + Nodes(t[RIGHT])

\* C17: after every insert and every erase the tree of the Index is a valid
\* red-black tree: the root is black (a null leaf counts as black), no red
\* node has a red child, and all paths from the root to a leaf hold the same
\* number of black nodes.  The erase of any element keeps it so, whether a
\* node with two children gives way to its predecessor or to its successor.
C17_RedBlackTree ==
    /\ RedBlack(tree_[1].root)
    /\ \A h \in Live(1) :
          /\ RedBlack(tree_erase(tree_[1].root, h))
          /\ RedBlack(tree_erase_successor(tree_[1].root, h))
          /\ Nodes(tree_erase(tree_[1].root, h)) = Nodes(tree_[1].root) - 1
          /\ Nodes(tree_erase_successor(tree_[1].root, h)) = Nodes(tree_[1].root) - 1
    /\ \A val \in 0 .. MaxTreeKey :
          LET w == insert_by_val(World, 1, val).w IN
          /\ RedBlack(w.tree_[1].root)
          /\ Nodes(w.tree_[1].root) = Len(w.data_[1])

\* the node of handle h has a left and a right child
TwoChildren(t, h) ==
    LET n == Sub(t, PathOf(t, h)) IN n[LEFT] # <<>> /\ n[RIGHT] # <<>>

\* C17 witness: a tree of six nodes, past several repairs, from which a black
\* node with two children is erased and a valid tree of five nodes remains.
C17_Witness ==
    /\ Nodes(tree_[1].root) = 6
    /\ \E h \in Live(1) :
          /\ TwoChildren(tree_[1].root, h)
          /\ Sub(tree_[1].root, PathOf(tree_[1].root, h))[1] = BLACK
          /\ PathOf(tree_[1].root, h) # <<>>
          /\ RedBlack(tree_erase(tree_[1].root, h))
          /\ Nodes(tree_erase(tree_[1].root, h)) = 5

IsPowerOfTwo(n) == \E k \in 0 .. 10 : n = 2 ^ k

\* C18: in every state the bucket count of a hash container is a power of two
\* and at least 8, and so is the count any reserve(n) or rehash(n) with n up
\* to MaxBuckets would leave, whatever the load factor in force.
C18_BucketCountPowerOfTwo ==
    IsHash =>
        \A c \in Conts :
            LET b == hash_buckets_[c] IN
            /\ row_size(b) >= 8
            /\ IsPowerOfTwo(row_size(b))
            /\ \A n \in 0 .. MaxBuckets :
                  /\ IsPowerOfTwo(row_size(rehash(b, n, value)))
                  /\ row_size(rehash(b, n, value)) >= 8
                  /\ IsPowerOfTwo(row_size(reserve(b, n, value)))
                  /\ row_size(reserve(b, n, value)) >= 8

\* C18 witness: a table that holds elements has grown past 16 buckets, and a
\* rehash(9) of it would settle on 16.
C18_Witness ==
    /\ IsHash
    /\ row_size(hash_buckets_[1]) = 32
    /\ hash_buckets_[1].size_ >= 2
    /\ row_size(rehash(hash_buckets_[1], 9, value)) = 16

RECURSIVE Filled(_)
\* a new table with the default load factor 1 after inserts of the handles
\* 1 .. n, handle h carrying the key h
Filled(n) ==
    IF n = 0 THEN HashBuckets(1)
    ELSE hash_insert(Filled(n - 1), n, [h \in 1 .. n |-> h])

\* C19: an insert into the bucket table changes the bucket count exactly when
\* the size counted up exceeds the capacity floor(bucket_count *
\* max_load_factor); and from 8 buckets at load factor 1 the first eight
\* inserts of distinct keys leave 8 buckets and the ninth makes them 16.
C19_RehashOnInsert ==
    /\ \A val \in Keys :
          LET b == hash_buckets_[1]
              after == hash_insert(b, uid, (uid :> val) @@ value)
          IN  (row_size(after) # row_size(b)) <=> (b.size_ + 1 > capacity(b))
    /\ \A n \in 0 .. 8 : row_size(Filled(n)) = 8
    /\ row_size(Filled(9)) = 16

\* C20: find(k) on a container that stores an element with key k returns the
\* handle of a live element of that container whose key is k; on a container
\* that stores none it returns the container's own end().
C20_FindHitOrEnd ==
    \A c \in Conts, k \in Keys :
        LET it == find(World, c, k) IN
        IF Holds(c, k)
        THEN it.node \in Live(c) /\ std_equal_to(value[it.node], k)
        ELSE equal_to(it, end(c))

\* no two elements of c in w carry the same value
Distinct(w, c) ==
    \A i, j \in 1 .. Len(w.data_[c]) :
        i # j => ~std_equal_to(w.value[w.data_[c][i]], w.value[w.data_[c][j]])

\* C21: insert(hint, val) on a unique set whose values are distinct, with any
\* hint of that set (an element or end()), leaves the values distinct: a value
\* already stored is not stored a second time and the size stays, a new value
\* adds one element.
C21_InsertHintUnique ==
    IsUnique =>
        \A c \in Conts, val \in Keys :
            \A hint \in Live(c) \cup {NULL} :
                Distinct(World, c) =>
                    LET w == insert_by_hint(World, c, hint, val) IN
                    /\ Distinct(w, c)
                    /\ size(w, c) = size(World, c) + (IF Holds(c, val) THEN 0 ELSE 1)

\* C22: lower_bound(k) of a TreeSet is the iterator to the first element e of
\* the traversal for which key_comp(e, k) is false, end() when there is none;
\* upper_bound(k) is the element after it when that element is equivalent to
\* k, and the same iterator otherwise.
C22_TreeSetBounds ==
    shape = "TreeSet" =>
        \A c \in Conts, k \in Keys :
            LET lower == TreeSet_lower_bound(World, c, k)
                upper == TreeSet_upper_bound(World, c, k)
            IN  /\ lower = FirstAt(c, NotLess(c, k))
                /\ upper = IF lower.node # NULL /\ equivalent(key_comp, value[lower.node], k)
                           THEN SetIterator(c, next(World, c, lower.node))
                           ELSE lower

\* the number of elements of v that satisfy the predicate p
CountTrue(v, p) == Cardinality({i \in 1 .. Len(v) : Pred(p, v[i])})

RECURSIVE Factorial(_)
Factorial(n) == IF n = 0 THEN 1 ELSE n * Factorial(n - 1)

RECURSIVE Rank(_, _)
\* the number of arrangements of the elements of v from position i on that
\* come before v in lexicographic order
Rank(v, i) ==
    IF i > Len(v) THEN 0
    ELSE Cardinality({j \in i + 1 .. Len(v) : v[j] < v[i]}) * Factorial(Len(v) - i)
         + Rank(v, i + 1)

\* the loop of the call has ended: the last call returned false
LoopEnded == call.op \in {"next_permutation", "prev_permutation"} /\ call.ret = 0

\* C25, the count: while the loop runs, the arrangement after cnt calls that
\* returned true is the cnt-th one after the start in lexicographic order
\* (ascending for next_permutation, descending for prev_permutation), so no
\* arrangement comes twice; and the call that returns false is the one after
\* n! - 1 calls that returned true.
PermutationCount ==
    call.op \in {"next_permutation", "prev_permutation"} =>
        LET n == Len(call.v)
            rank == IF call.op = "next_permutation" THEN Rank(call.v, 1)
                    ELSE Factorial(n) - 1 - Rank(call.v, 1)
        IN  /\ call.cnt <= Factorial(n) - 1
            /\ call.ret = 1 => rank = call.cnt
            /\ call.ret = 0 => call.cnt = Factorial(n) - 1

Stored(b, elem) == \E i \in 1 .. Len(b.data_) : IndexOf(b.data_[i], elem) > 0

\* C26: in every reachable state of the hash index the size counter is the
\* number of handles stored across all buckets; erase(handle) of a handle
\* that is not stored changes neither the size nor any bucket, and rehash
\* leaves the size unchanged.
C26_SizeCountsHandles ==
    LET b == hash_buckets_[1]
    IN  /\ b.size_ = Len(Flatten(b.data_))
        /\ \A h \in DOMAIN value :
              ~Stored(b, h) => hash_erase(b, h, value) = b
        /\ \A length \in RehashLengths :
              rehash(b, length, value).size_ = b.size_

\* every stored handle lies in the bucket index_by_value inspects for it
InKeyBucket(b, val) ==
    \A i \in 1 .. Len(b.data_) : \A j \in 1 .. Len(b.data_[i]) :
        index_by_value(b, b.data_[i][j], val) = i - 1

\* C27: in every reachable state every handle stored in the hash index lies
\* in bucket hash(key) & (bucket_count - 1); insert stores the handle in the
\* bucket that find and erase inspect for it, and rehash gives the table its
\* new bucket count with every handle in that bucket, whatever integer the
\* hasher returns.
C27_HandleInInspectedBucket ==
    LET b == hash_buckets_[1]
    IN  /\ InKeyBucket(b, value)
        /\ \A key \in Keys :
              LET valueNew == Append(value, key)
                  after == hash_insert(b, uid, valueNew)
              IN  /\ InKeyBucket(after, valueNew)
                  /\ IndexOf(after.data_[index_by_value(after, uid, valueNew) + 1],
                             uid) > 0
        /\ \A length \in RehashLengths :
              LET after == rehash(b, length, value)
              IN  /\ InKeyBucket(after, value)
                  /\ Len(after.data_) = rehash_length(length)

HandleBag(b) ==
    LET all == Flatten(b.data_)
    IN  [h \in SeqToSet(all) |-> Cardinality({i \in 1 .. Len(all) : all[i] = h})]

\* C29: a rehash keeps exactly the handles the table holds, none lost and
\* none stored twice, whether rehash(length) is called, reserve(length)
\* calls it, or an insert does; the insert that rehashes appends its new
\* handle to the Store and leaves the order and the payloads of the others
\* as they were, and the Store lists the handles in the order they were
\* inserted.
C29_RehashKeepsHandles ==
    LET b == hash_buckets_[1]
    IN  /\ \A length \in 0 .. MaxBuckets :
              /\ HandleBag(rehash(b, length, value)) = HandleBag(b)
              /\ rehash_length(reserve_length(b, length)) <= MaxBuckets
                    => HandleBag(reserve(b, length, value)) = HandleBag(b)
        /\ \A key \in Keys :
              LET w == insert_by_val(World, 1, key).w
              IN  row_size(w.hash_buckets_[1]) # row_size(b) =>
                    /\ w.data_[1] = Append(data_[1], uid)
                    /\ \A x \in DOMAIN value : w.value[x] = value[x]
                    /\ w.value[uid] = key
                    /\ HandleBag(w.hash_buckets_[1])
                         = [h \in DOMAIN HandleBag(b) \cup {uid} |-> 1]
        /\ \A i, j \in 1 .. Len(data_[1]) : i < j => data_[1][i] < data_[1][j]

\* two elements are stored and the insert of a third key rehashes the table
C29_Witness ==
    /\ Len(data_[1]) = 2
    /\ hash_buckets_[1].size_ = 2
    /\ \E key \in Keys :
          LET w == insert_by_val(World, 1, key).w
          IN  /\ row_size(w.hash_buckets_[1]) > row_size(hash_buckets_[1])
              /\ Len(w.data_[1]) = 3

RECURSIVE LastVisited(_, _, _, _)
\* the last node of the descent for a key no element is equivalent to
LastVisited(t, cmp, val, key) ==
    LET child == IF compare(cmp, key, val[t[3]]) THEN t[LEFT] ELSE t[RIGHT]
    IN  IF child = <<>> THEN t[3] ELSE LastVisited(child, cmp, val, key)

\* the positions, in the order of the tree, of the elements whose key is
\* equivalent to key
RunOf(key) ==
    LET order == InOrder(tree_[1].root)
    IN  {i \in 1 .. Len(order) : equivalent(tree_[1].compare, value[order[i]], key)}

\* C30: nearest_by_key(key) returns null exactly when the tree is empty.
\* When some element has a key equivalent to key it returns the first
\* element of that run in the order of the tree, which is the one inserted
\* earliest.  Otherwise it returns the last node the descent visits, which
\* is the element just before or just after the place key would take in
\* the order of the tree.
C30_NearestByKey ==
    LET t == tree_[1].root
        cmp == tree_[1].compare
        order == InOrder(t)
    IN  \A key \in -1 .. MaxKey + 1 :
          LET node == nearest_by_key(t, cmp, value, key)
              run == RunOf(key)
              below == Cardinality({i \in 1 .. Len(order) :
                                      compare(cmp, value[order[i]], key)})
          IN  /\ (node = NULL) <=> (t = <<>>)
              /\ run # {} =>
                    /\ \E i \in run : node = order[i] /\ \A j \in run : i <= j
                    /\ \A j \in run : node <= order[j]
              /\ (run = {} /\ t # <<>>) =>
                    /\ node = LastVisited(t, cmp, value, key)
                    /\ \/ below >= 1 /\ node = order[below]
                       \/ below < Len(order) /\ node = order[below + 1]

\* five elements, three of them with equivalent keys, the root among the
\* three and not the first of them; another key has no element
C30_Witness ==
    LET t == tree_[1].root
        order == InOrder(t)
    IN  /\ Len(order) = 5
        /\ \E key \in Keys :
              /\ Cardinality(RunOf(key)) = 3
              /\ equivalent(tree_[1].compare, value[t[3]], key)
              /\ nearest_by_key(t, tree_[1].compare, value, key) # t[3]
        /\ \E key \in Keys : RunOf(key) = {}

\* C31: the comparator of the multi variant (the caller's order on the keys,
\* then the creation id among equivalent keys) is a strict total order on
\* the handles: irreflexive, asymmetric, transitive, exactly one of two
\* distinct handles precedes the other, and of two handles with equivalent
\* keys the one inserted earlier precedes.
C31_HandleOrderTotal ==
    LET cmp == tree_[1].compare
        made == DOMAIN value
    IN  /\ \A x \in made : ~handle_less(cmp, TRUE, value, x, x)
        /\ \A x, y \in made :
              /\ handle_less(cmp, TRUE, value, x, y)
                    => ~handle_less(cmp, TRUE, value, y, x)
              /\ x # y => \/ handle_less(cmp, TRUE, value, x, y)
                          \/ handle_less(cmp, TRUE, value, y, x)
              /\ (equivalent(cmp, value[x], value[y]) /\ x < y)
                    => handle_less(cmp, TRUE, value, x, y)
        /\ \A x, y, z \in made :
              (handle_less(cmp, TRUE, value, x, y) /\ handle_less(cmp, TRUE, value, y, z))
                => handle_less(cmp, TRUE, value, x, z)

\* five handles in the tree, among them two with equal keys, two with keys
\* that are equivalent and not equal, and two with keys in order
C31_Witness ==
    /\ Len(InOrder(tree_[1].root)) = 5
    /\ tree_[1].compare = "half"
    /\ \E x, y \in DOMAIN value : x # y /\ value[x] = value[y]
    /\ \E x, y \in DOMAIN value : value[x] # value[y]
                                  /\ equivalent("half", value[x], value[y])
    /\ \E x, y \in DOMAIN value : compare("half", value[x], value[y])

\* C32: after assign(begin, end) on a hash set the elements it held are gone
\* and it holds exactly the distinct keys of the range: size() is their
\* number, find(k) succeeds for those keys and for no other, and the table
\* holds exactly the handles of the elements of the new Store, each once.
C32_AssignReplaces ==
    shape = "HashSet" =>
        \A c \in Conts, items \in Ranges :
            LET w == assign(World, c, items)
                keys == {items[i] : i \in 1 .. Len(items)}
                stored == Flatten(w.hash_buckets_[c].data_)
            IN  /\ SeqToSet(w.data_[c]) \cap SeqToSet(data_[c]) = {}
                /\ size(w, c) = Cardinality(keys)
                /\ {w.value[h] : h \in SeqToSet(w.data_[c])} = keys
                /\ \A k \in Keys :
                      ~equal_to(find(w, c, k), end(c)) <=> k \in keys
                /\ \A k \in keys :
                      LET it == find(w, c, k)
                      IN  it.node \in SeqToSet(w.data_[c]) /\ w.value[it.node] = k
                /\ SeqToSet(stored) = SeqToSet(w.data_[c])
                /\ Len(stored) = size(w, c)

\* the ids of the elements of the tree of c, in the order they were issued
OwnIds(c) ==
    SelectSeq([h \in 1 .. Len(value) |-> h],
              LAMBDA h : h \in SeqToSet(InOrder(tree_[c].root)))

\* the keys inserted into the tree of c, in the order of their insertion
OwnKeys(c) == [i \in 1 .. Len(OwnIds(c)) |-> value[OwnIds(c)[i]]]

RECURSIVE Alone(_, _, _)
\* the tree the first n of the keys make when they are inserted in turn and
\* nothing else runs in the program: their ids are 1 .. n
Alone(cmp, keys, n) ==
    IF n = 0 THEN <<>>
    ELSE tree_insert(Alone(cmp, keys, n - 1), cmp, TRUE, keys, n)

\* the keys of the tree of c in traversal order are those of the run alone
SameKeyOrderAlone(c) ==
    LET alone == InOrder(Alone(key_comp, OwnKeys(c), Len(OwnKeys(c))))
        here == InOrder(tree_[c].root)
    IN  [i \in 1 .. Len(here) |-> value[here[i]]]
          = [i \in 1 .. Len(alone) |-> OwnKeys(c)[alone[i]]]

\* C33: the creation id that breaks ties among equivalent keys is owned by
\* the container.  The insertions made into a multi tree container give its
\* elements the ids, and the traversal the order, that the same insertions
\* give when no other container is operated on in between.
C33_IdsOwnedPerContainer ==
    \A c \in Conts :
        /\ InOrder(tree_[c].root)
             = InOrder(Alone(key_comp, OwnKeys(c), Len(OwnKeys(c))))
        /\ SameKeyOrderAlone(c)

RECURSIVE Iterations(_, _, _, _, _)
\* how many times the loop of _Nearest_by_key runs from the node ret
Iterations(ret, cmp, val, key, equal_mover) ==
    LET it == ret[3]
        my_node == IF compare(cmp, key, val[it]) THEN ret[LEFT]
                   ELSE IF compare(cmp, val[it], key) THEN ret[RIGHT]
                   ELSE ret[equal_mover]
    IN  IF my_node = <<>> THEN 1
        ELSE 1 + Iterations(my_node, cmp, val, key, equal_mover)

RECURSIVE StepsToEnd(_, _, _, _)
\* how many next() lead from the element it to end(), NULL when more than
\* fuel of them are needed
StepsToEnd(w, c, it, fuel) ==
    IF it = NULL THEN 0
    ELSE IF fuel = 0 THEN NULL - 1
    ELSE LET rest == StepsToEnd(w, c, next(w, c, it), fuel - 1)
         IN  IF rest < 0 THEN rest ELSE rest + 1

C35_ReserveGivesCapacity ==
    LET b == hash_buckets_[1]
    IN  \A n \in 0 .. MaxBuckets :
          ~reserve_throws(b, n, value) => capacity(reserve(b, n, value)) >= n

\* no handle of the sequence is followed by one whose key the comparator
\* puts before its own
InOrderOf(cmp, val, handles) ==
    \A i, j \in 1 .. Len(handles) :
        i < j => ~compare(cmp, val[handles[j]], val[handles[i]])

\* C36: a tree set or tree multiset keeps the comparator it was constructed
\* with across clear(): the tree made by clear() compares with it, and two
\* elements inserted after clear() are indexed and traversed in its order
\* and are found by their keys.
C36_ClearKeepsComparator ==
    IsTree =>
        \A c \in Conts :
            LET w == clear(World, c)
            IN  /\ w.tree_[c].compare = key_comp
                /\ \A k1, k2 \in Keys :
                      LET r == insert_by_val(insert_by_val(w, c, k1).w, c, k2).w
                      IN  /\ InOrderOf(key_comp, r.value, InOrder(r.tree_[c].root))
                          /\ InOrderOf(key_comp, r.value, r.data_[c])
                          /\ find(r, c, k1).node \in SeqToSet(r.data_[c])
                          /\ find(r, c, k2).node \in SeqToSet(r.data_[c])

\* C37: for the tree containers the handles of the tree Index, left to
\* right, are the handles of the Ordered Store in traversal order, after
\* every insert and erase; next() from a handle a tree query returned steps
\* to the handle that follows it in the tree.
C37_TreeOrderIsStoreOrder ==
    IsTree =>
        \A c \in Conts :
            /\ InOrder(tree_[c].root) = data_[c]
            /\ \A i \in 1 .. Len(data_[c]) :
                  LET order == InOrder(tree_[c].root)
                      after == next(World, c, order[i])
                  IN  after = (IF i = Len(order) THEN NULL ELSE order[i + 1])

\* C38: after a.swap(b) on two hash sets the Index each set now holds
\* resolves a miss against that set: find(k) of a key the set does not hold
\* is equal to its own end(), and the insert(k) that follows adds k to it
\* and returns the new handle with true.
C38_SwapKeepsOwnEnd ==
    shape = "HashSet" =>
        LET w == swap_tree_set(World, 1)
        IN  \A c \in Conts, k \in Keys :
              (\A h \in SeqToSet(w.data_[c]) : w.value[h] # k) =>
                  LET r == insert_by_val(w, c, k)
                  IN  /\ equal_to(find(w, c, k), end(c))
                      /\ r.second = TRUE
                      /\ r.first = SetIterator(c, uid)
                      /\ r.w.data_[c] = Append(w.data_[c], uid)
                      /\ r.w.value[uid] = k

====
